---- MODULE Spec2Model ----
(***************************************************************************)
(* Model of the in-memory helpdesk ticket store of src/ticketing.py:       *)
(* Ticket, TicketStore and their operations.  Text is a sequence of        *)
(* one-character strings so that str.strip() is computed, not assumed.     *)
(* An Optional value is <<>> (None) or <<v>> (a present value v).  A       *)
(* returned Ticket is a reference to the store's own object, modelled as   *)
(* its position in the store's list (the store never removes or reorders). *)
(***************************************************************************)
EXTENDS Integers, Sequences, FiniteSets, TLC

\* ---------------------------------------------------------------- bounds
MaxTickets == 2
MaxClock == 1

\* ------------------------------------------------------------ value types
None == <<>>
Some(v) == <<v>>

OPEN == "Open"
RESOLVED == "Resolved"
Status == {OPEN, RESOLVED}

LOW == "Low"
MEDIUM == "Medium"
HIGH == "High"
Priority == {LOW, MEDIUM, HIGH}

Whitespace == {" "}

\* Inputs of the callers, drawn from small sets.
ResolutionInputs == { <<>>, <<" ", " ">>, <<" ", "x", " ">>, <<"y">> }
PaddedInput ==
    << <<" ", "A", " ">>, <<" ", "a", "@", "x", " ">>, <<" ", "S", " ">>, <<" ", "D", " ", "d", " ">>, HIGH >>
PlainInput ==
    << <<"B">>, <<"b", "@", "x">>, <<"E">>, <<"C", " ", "s">>, MEDIUM >>
BlankInput ==
    << <<" ">>, <<>>, <<"S">>, <<" ", " ">>, LOW >>
CreateInputs == {PaddedInput, PlainInput, BlankInput}
TimedCreateInputs == {PaddedInput, BlankInput}
IdInputs == 1..(MaxTickets + 1)
StatusFilters == {None} \cup {Some(s) : s \in Status}
PriorityFilters == {None} \cup {Some(p) : p \in Priority}

NoError == ""
NotFoundMsg == "Ticket not found"
EmptyResolutionMsg == "Resolution cannot be empty"

\* The exception class raised with each message.
\* Variant: a missing id raises LookupError.
NotFoundKind_lookup == "LookupError"
NotFoundKind == "ValueError"
EmptyResolutionKind == "ValueError"
KindOf(exc) ==
    IF exc = NotFoundMsg THEN NotFoundKind
    ELSE IF exc = EmptyResolutionMsg THEN EmptyResolutionKind
    ELSE "None"

\* ------------------------------------------------------------ str.strip()
RECURSIVE lstrip(_)
lstrip(s) ==
    IF s = <<>> THEN s
    ELSE IF Head(s) \in Whitespace THEN lstrip(Tail(s)) ELSE s

RECURSIVE rstrip(_)
rstrip(s) ==
    IF s = <<>> THEN s
    ELSE IF s[Len(s)] \in Whitespace THEN rstrip(SubSeq(s, 1, Len(s) - 1)) ELSE s

\* Variant: only the leading whitespace is removed.
strip_leftOnly(s) == lstrip(s)

strip(s) == rstrip(lstrip(s))

\* ----------------------------------------------------------------- state
VARIABLES
    tickets,    \* TicketStore._tickets: the list of Ticket objects
    next_id,    \* TicketStore._next_id
    clock,      \* what datetime.utcnow() returns now
    result,     \* the last call: operation, arguments, exception, return value
    creates,    \* how many create_ticket calls were made (observer's count)
    session     \* src/app.py: st.session_state.tickets, the UI's own list

vars == <<tickets, next_id, clock, result, creates, session>>

\* The dataclass constructor with its defaults.
Ticket(id, requester, contact, subject, description, priority, now) ==
    [ id |-> id,
      requester |-> requester,
      contact |-> contact,
      subject |-> subject,
      description |-> description,
      priority |-> priority,
      status |-> OPEN,
      created_at |-> now,
      resolution |-> None,
      resolved_at |-> None ]

\* Variants of Ticket.resolve with a slip in it: the timestamp is not stamped;
\* a second resolve reopens the ticket; the text is stored untrimmed; the
\* status is assigned before the text is validated.
resolve_noStamp(t, resolution, now) ==
    IF strip(resolution) = <<>>
    THEN [ exc |-> EmptyResolutionMsg, ticket |-> t ]
    ELSE [ exc |-> NoError,
           ticket |-> [ t EXCEPT !.status = RESOLVED,
                                 !.resolution = Some(strip(resolution)) ] ]

resolve_toggle(t, resolution, now) ==
    IF strip(resolution) = <<>>
    THEN [ exc |-> EmptyResolutionMsg, ticket |-> t ]
    ELSE [ exc |-> NoError,
           ticket |-> [ t EXCEPT !.status = IF t.status = OPEN THEN RESOLVED ELSE OPEN,
                                 !.resolution = Some(strip(resolution)),
                                 !.resolved_at = Some(now) ] ]

resolve_noStrip(t, resolution, now) ==
    IF strip(resolution) = <<>>
    THEN [ exc |-> EmptyResolutionMsg, ticket |-> t ]
    ELSE [ exc |-> NoError,
           ticket |-> [ t EXCEPT !.status = RESOLVED,
                                 !.resolution = Some(resolution),
                                 !.resolved_at = Some(now) ] ]

resolve_statusFirst(t, resolution, now) ==
    IF strip(resolution) = <<>>
    THEN [ exc |-> EmptyResolutionMsg, ticket |-> [ t EXCEPT !.status = RESOLVED ] ]
    ELSE [ exc |-> NoError,
           ticket |-> [ t EXCEPT !.status = RESOLVED,
                                 !.resolution = Some(strip(resolution)),
                                 !.resolved_at = Some(now) ] ]

\* Variant: the creation time is stamped again on resolve.
resolve_restamp(t, resolution, now) ==
    IF strip(resolution) = <<>>
    THEN [ exc |-> EmptyResolutionMsg, ticket |-> t ]
    ELSE [ exc |-> NoError,
           ticket |-> [ t EXCEPT !.status = RESOLVED,
                                 !.resolution = Some(strip(resolution)),
                                 !.created_at = now,
                                 !.resolved_at = Some(now) ] ]

\* Ticket.resolve: the exception it raises (NoError when none) and the
\* ticket object afterwards.
resolve(t, resolution, now) ==
    IF strip(resolution) = <<>>
    THEN [ exc |-> EmptyResolutionMsg, ticket |-> t ]
    ELSE [ exc |-> NoError,
           ticket |-> [ t EXCEPT !.status = RESOLVED,
                                 !.resolution = Some(strip(resolution)),
                                 !.resolved_at = Some(now) ] ]

\* TicketStore._compute_next_id
RECURSIVE MaxId(_)
MaxId(ts) ==
    IF Len(ts) = 1 THEN ts[1].id
    ELSE LET m == MaxId(Tail(ts)) IN IF ts[1].id > m THEN ts[1].id ELSE m

\* Variant: the counter is taken from the number of tickets.
compute_next_id_len(ts) == Len(ts) + 1

compute_next_id(ts) ==
    IF ts = <<>> THEN 1 ELSE MaxId(ts) + 1

\* TicketStore.get_ticket: the first ticket with that id, as Some(position),
\* or None.
RECURSIVE get_ticket_from(_, _, _)
get_ticket_from(ts, ticket_id, i) ==
    IF i > Len(ts) THEN None
    ELSE IF ts[i].id = ticket_id THEN Some(i)
    ELSE get_ticket_from(ts, ticket_id, i + 1)

\* Variant: a lookup that falls back to the newest ticket instead of None.
get_ticket_orLast(ts, ticket_id) ==
    IF get_ticket_from(ts, ticket_id, 1) = None /\ ts # <<>>
    THEN Some(Len(ts))
    ELSE get_ticket_from(ts, ticket_id, 1)

\* Variant: the last ticket with that id instead of the first.
get_ticket_lastMatch(ts, ticket_id) ==
    LET found == {i \in 1..Len(ts) : ts[i].id = ticket_id} IN
    IF found = {} THEN None
    ELSE Some(CHOOSE i \in found : \A j \in found : j <= i)

get_ticket(ts, ticket_id) == get_ticket_from(ts, ticket_id, 1)

\* TicketStore.filter_tickets: the list comprehension, left to right.
\* Variant: the two filters joined by "or".
Matches_or(t, status, priority) ==
    \/ (status = None \/ t.status = status[1])
    \/ (priority = None \/ t.priority = priority[1])

Matches(t, status, priority) ==
    /\ (status = None \/ t.status = status[1])
    /\ (priority = None \/ t.priority = priority[1])

RECURSIVE filter_from(_, _, _, _)
filter_from(ts, status, priority, i) ==
    IF i > Len(ts) THEN <<>>
    ELSE IF Matches(ts[i], status, priority)
         THEN <<i>> \o filter_from(ts, status, priority, i + 1)
         ELSE filter_from(ts, status, priority, i + 1)

filter_tickets(ts, status, priority) == filter_from(ts, status, priority, 1)

\* TicketStore.stats
RECURSIVE CountOpen(_)
CountOpen(ts) ==
    IF ts = <<>> THEN 0
    ELSE (IF Head(ts).status = OPEN THEN 1 ELSE 0) + CountOpen(Tail(ts))

\* Variant: the resolved count is not reduced by the open count.
stats_noSubtract(ts) ==
    LET total == Len(ts)
        open_count == CountOpen(ts)
        resolved_count == total
    IN <<total, open_count, resolved_count>>

stats(ts) ==
    LET total == Len(ts)
        open_count == CountOpen(ts)
        resolved_count == total - open_count
    IN <<total, open_count, resolved_count>>

\* TicketStore.tickets: a new list of the same objects.
tickets_copy(ts) == [i \in 1..Len(ts) |-> i]

\* The record of a call.  text is the text argument of resolve_ticket, or
\* the four text arguments of create_ticket in order, or the Optional
\* timestamp argument of format_timestamp.
Call(op, id, text, status, priority, exc, ret) ==
    [ op |-> op, id |-> id, text |-> text, status |-> status,
      priority |-> priority, exc |-> exc, ret |-> ret ]

\* ------------------------------------------------------------------ Init
\* TicketStore() : no tickets, counter computed from the empty list.
Init ==
    /\ tickets = <<>>
    /\ next_id = compute_next_id(<<>>)
    /\ clock = 0
    /\ result = Call("__init__", 0, <<>>, None, None, NoError, <<>>)
    /\ creates = 0
    /\ session = <<>>

\* --------------------------------------------------------------- actions
\* Time passes between calls.
Tick ==
    /\ clock < MaxClock
    /\ clock' = clock + 1
    /\ UNCHANGED <<tickets, next_id, result, creates, session>>

\* The id create_ticket gives the new ticket and the counter afterwards.
\* Variant: every ticket is given the first id.
AllocId_first(n) == 1
AllocId(n) == n
\* Variants: the counter skips a value; the counter is not advanced.
BumpId_skip(n) == n + 2
BumpId_stay(n) == n
BumpId(n) == n + 1

CreateTicket(requester, contact, subject, description, priority) ==
    /\ creates < MaxTickets
    /\ LET ticket == Ticket(AllocId(next_id), strip(requester), strip(contact),
                            strip(subject), strip(description), priority, clock)
       IN /\ tickets' = Append(tickets, ticket)
          /\ next_id' = BumpId(next_id)
          /\ result' = Call("create_ticket", 0,
                            <<requester, contact, subject, description>>,
                            None, Some(priority), NoError, <<Len(tickets) + 1>>)
          /\ creates' = creates + 1
    /\ UNCHANGED <<clock, session>>

ResolveTicket(ticket_id, resolution) ==
    LET ticket == get_ticket(tickets, ticket_id) IN
    /\ IF ticket = None
       THEN /\ result' = Call("resolve_ticket", ticket_id, resolution, None, None,
                              NotFoundMsg, <<>>)
            /\ UNCHANGED tickets
       ELSE LET r == resolve(tickets[ticket[1]], resolution, clock) IN
            /\ tickets' = [tickets EXCEPT ![ticket[1]] = r.ticket]
            /\ result' = Call("resolve_ticket", ticket_id, resolution, None, None,
                              r.exc, IF r.exc = NoError THEN ticket ELSE <<>>)
    /\ UNCHANGED <<next_id, clock, creates, session>>

GetTicket(ticket_id) ==
    /\ result' = Call("get_ticket", ticket_id, <<>>, None, None, NoError,
                      get_ticket(tickets, ticket_id))
    /\ UNCHANGED <<tickets, next_id, clock, creates, session>>

FilterTickets(status, priority) ==
    /\ result' = Call("filter_tickets", 0, <<>>, status, priority, NoError,
                      filter_tickets(tickets, status, priority))
    /\ UNCHANGED <<tickets, next_id, clock, creates, session>>

Stats ==
    /\ result' = Call("stats", 0, <<>>, None, None, NoError, stats(tickets))
    /\ UNCHANGED <<tickets, next_id, clock, creates, session>>

Tickets ==
    /\ result' = Call("tickets", 0, <<>>, None, None, NoError, tickets_copy(tickets))
    /\ UNCHANGED <<tickets, next_id, clock, creates, session>>

\* Whether the list a query returns is the store's own list object.  Both
\* tickets (list(self._tickets)) and filter_tickets (a comprehension) build
\* a new list.
\* Variant: tickets returns self._tickets itself.
ReturnsOwnList_tickets(op) == op = "tickets"
ReturnsOwnList(op) == FALSE

\* What a caller can do to a list it was given.
ListChanges == {"append", "pop", "reverse"}
Changed(list, change) ==
    IF change = "append" THEN Append(list, list[1])
    ELSE IF change = "pop" THEN SubSeq(list, 1, Len(list) - 1)
    ELSE [k \in 1..Len(list) |-> list[Len(list) + 1 - k]]

\* The caller changes the list the last tickets or filter_tickets call
\* returned; the store's list changes with it only if it is the same object.
MutateReturned(change) ==
    /\ result.op \in {"tickets", "filter_tickets"}
    /\ result.ret # <<>>
    /\ result' = Call("mutate_list", 0, <<>>, None, None, NoError,
                      Changed(result.ret, change))
    /\ tickets' = IF ReturnsOwnList(result.op) THEN Changed(tickets, change)
                  ELSE tickets
    /\ UNCHANGED <<next_id, clock, creates, session>>

\* The calls a client can make, with their inputs.
Create(inputs) ==
    \E in \in inputs : CreateTicket(in[1], in[2], in[3], in[4], in[5])

Resolve ==
    \E id \in IdInputs, text \in ResolutionInputs : ResolveTicket(id, text)

Query ==
    \/ \E id \in IdInputs : GetTicket(id)
    \/ \E s \in StatusFilters, p \in PriorityFilters : FilterTickets(s, p)
    \/ Stats
    \/ Tickets
    \/ \E change \in ListChanges : MutateReturned(change)

\* Every call, at any time.
Next ==
    \/ Tick
    \/ Create(CreateInputs)
    \/ Resolve
    \/ Query

Spec == Init /\ [][Next]_vars

\* Creating and resolving while time passes (two kinds of ticket).
NextResolve ==
    \/ Tick
    \/ Create(TimedCreateInputs)
    \/ Resolve

SpecResolve == Init /\ [][NextResolve]_vars

\* Every call of the store, all within one reading of the clock.
NextQuery ==
    \/ Create(CreateInputs)
    \/ Resolve
    \/ Query

SpecQuery == Init /\ [][NextQuery]_vars

\* format_timestamp.  A datetime is a record of its calendar fields; a
\* character outside ASCII is written as the name of its code point.
EmDash == "U+2014"
Digits == <<"0", "1", "2", "3", "4", "5", "6", "7", "8", "9">>
Digit(n) == Digits[n + 1]
Pad2(n) == <<Digit((n \div 10) % 10), Digit(n % 10)>>
Pad4(n) == Pad2(n \div 100) \o Pad2(n % 100)

\* timestamp.strftime("%Y-%m-%d %H:%M UTC")
strftime(t) ==
    Pad4(t.year) \o <<"-">> \o Pad2(t.month) \o <<"-">> \o Pad2(t.day) \o <<" ">>
        \o Pad2(t.hour) \o <<":">> \o Pad2(t.minute) \o <<" ", "U", "T", "C">>

\* The literal returned for None is the three characters U+00E2 U+20AC
\* U+201D in the source file.
format_timestamp(timestamp) ==
    IF timestamp = None
    THEN <<"U+00E2", "U+20AC", "U+201D">>
    ELSE strftime(timestamp[1])

TimestampInputs ==
    {None} \cup
    { Some([year |-> y, month |-> mo, day |-> d, hour |-> h, minute |-> mi, second |-> sec]) :
        y \in {1999, 2024}, mo \in {1, 12}, d \in {1, 31},
        h \in {0, 12, 23}, mi \in {0, 5, 59}, sec \in {0, 59} }

FormatTimestamp(timestamp) ==
    /\ result' = Call("format_timestamp", 0, timestamp, None, None, NoError,
                      format_timestamp(timestamp))
    /\ UNCHANGED <<tickets, next_id, clock, creates, session>>

NextFormat == \E timestamp \in TimestampInputs : FormatTimestamp(timestamp)

SpecFormat == Init /\ [][NextFormat]_vars

\* TicketStore(tickets): a store seeded with an existing sequence of tickets
\* (an absent sequence and an empty one both give the empty list).  The
\* seeds have ids out of order, with gaps, and one id twice.
SeedOpen(id) == Ticket(id, <<"Q">>, <<"q">>, <<"S">>, <<"D">>, LOW, 0)
SeedResolved(id) == resolve(SeedOpen(id), <<"x">>, 0).ticket
Seeds ==
    { None,
      <<SeedOpen(2)>>,
      <<SeedOpen(3), SeedResolved(1)>>,
      <<SeedOpen(1), SeedOpen(2)>>,
      <<SeedResolved(2), SeedOpen(2)>>,
      <<SeedOpen(1), SeedOpen(4)>> }

InitSeeded ==
    /\ \E seed \in Seeds :
          /\ tickets = (IF seed # None THEN seed ELSE <<>>)
          /\ next_id = compute_next_id(IF seed # None THEN seed ELSE <<>>)
    /\ clock = 0
    /\ result = Call("__init__", 0, <<>>, None, None, NoError, <<>>)
    /\ creates = 0
    /\ session = <<>>

NextSeeded ==
    \/ Create(TimedCreateInputs)
    \/ Resolve
    \/ \E id \in IdInputs : GetTicket(id)

SpecSeeded == InitSeeded /\ [][NextSeeded]_vars

\* ------------------------------------------------------------ src/app.py
\* The UI layer keeps its own Ticket class and its own list of tickets in
\* st.session_state; it does not call TicketStore.
FormErrorMsg == "Please complete all required fields before submitting."

OneBlankInput ==
    << <<"C">>, <<" ", "c">>, <<" ">>, <<"D">>, HIGH >>
FormInputs == CreateInputs \cup {OneBlankInput}

\* app.Ticket and its resolve, which stores the text as given.
AppTicket(id, requester, contact, subject, description, priority, now) ==
    [ id |-> id,
      requester |-> requester,
      contact |-> contact,
      subject |-> subject,
      description |-> description,
      priority |-> priority,
      status |-> "Open",
      created_at |-> now,
      resolution |-> None,
      resolved_at |-> None ]

app_resolve(t, resolution, now) ==
    [ t EXCEPT !.status = "Resolved",
               !.resolution = Some(resolution),
               !.resolved_at = Some(now) ]

\* Variant: the largest id is given again.
get_next_ticket_id_noPlus(ts) ==
    IF ts = <<>> THEN 1 ELSE MaxId(ts)

get_next_ticket_id(ts) ==
    IF ts = <<>> THEN 1 ELSE MaxId(ts) + 1

add_ticket(ts, ticket) == Append(ts, ticket)

\* app.resolve_ticket: the first ticket with that id is resolved.
RECURSIVE app_resolve_from(_, _, _, _, _)
app_resolve_from(ts, ticket_id, resolution, now, i) ==
    IF i > Len(ts) THEN ts
    ELSE IF ts[i].id = ticket_id
         THEN [ts EXCEPT ![i] = app_resolve(ts[i], resolution, now)]
         ELSE app_resolve_from(ts, ticket_id, resolution, now, i + 1)

app_resolve_ticket(ts, ticket_id, resolution, now) ==
    app_resolve_from(ts, ticket_id, resolution, now, 1)

\* The test of the form on its four texts.
\* Variant: one filled field is enough.
AllFilled_any(requester, contact, subject, description) ==
    \/ strip(requester) # <<>>
    \/ strip(contact) # <<>>
    \/ strip(subject) # <<>>
    \/ strip(description) # <<>>

AllFilled(requester, contact, subject, description) ==
    /\ strip(requester) # <<>>
    /\ strip(contact) # <<>>
    /\ strip(subject) # <<>>
    /\ strip(description) # <<>>

\* render_new_ticket_form, when the form is submitted.
SubmitForm(requester, contact, subject, description, priority) ==
    /\ Len(session) < MaxTickets
    /\ IF ~AllFilled(requester, contact, subject, description)
       THEN /\ result' = Call("submit_form", 0,
                              <<requester, contact, subject, description>>,
                              None, Some(priority), FormErrorMsg, <<>>)
            /\ UNCHANGED session
       ELSE LET ticket == AppTicket(get_next_ticket_id(session), strip(requester),
                                   strip(contact), strip(subject),
                                   strip(description), priority, clock)
            IN /\ session' = add_ticket(session, ticket)
               /\ result' = Call("submit_form", 0,
                                 <<requester, contact, subject, description>>,
                                 None, Some(priority), NoError,
                                 <<Len(session) + 1>>)
    /\ UNCHANGED <<tickets, next_id, clock, creates>>

\* render_ticket: the resolve button of the ticket shown at position i.  The
\* form is there for an Open ticket only and the button is disabled while
\* the notes are blank.
ResolveButton(i, resolution_text) ==
    /\ i \in 1..Len(session)
    /\ session[i].status = "Open"
    /\ strip(resolution_text) # <<>>
    /\ session' = app_resolve_ticket(session, session[i].id,
                                     strip(resolution_text), clock)
    /\ result' = Call("resolve_button", session[i].id, resolution_text, None, None,
                      NoError, <<>>)
    /\ UNCHANGED <<tickets, next_id, clock, creates>>

Submit(inputs) ==
    \E in \in inputs : SubmitForm(in[1], in[2], in[3], in[4], in[5])

ClickResolve ==
    \E i \in 1..MaxTickets, text \in ResolutionInputs : ResolveButton(i, text)

NextApp ==
    \/ Tick
    \/ Submit(FormInputs)
    \/ ClickResolve

SpecApp == Init /\ [][NextApp]_vars

\* The store and the UI's list, each fed the same kind of ticket.
NextBoth ==
    \/ Create({PlainInput})
    \/ Resolve
    \/ Submit({PlainInput})
    \/ ClickResolve

SpecBoth == Init /\ [][NextBoth]_vars

\* ------------------------------------------------------ auxiliary notions
Positions == 1..Len(tickets)

\* A step that is a call (time passing is the only step that is not one).
IsCall(op) == clock' = clock /\ result'.op = op

\* The position of the ticket a call returned.
Returned == result.ret[1]

\* Independent characterisation of str.strip(): r is text without its
\* leading and trailing whitespace.
IsBlank(text) == \A k \in 1..Len(text) : text[k] \in Whitespace

IsTrimOf(r, text) ==
    \E i \in 1..(Len(text) + 1), j \in 0..Len(text) :
        /\ r = SubSeq(text, i, j)
        /\ \A k \in 1..(i - 1) : text[k] \in Whitespace
        /\ \A k \in (j + 1)..Len(text) : text[k] \in Whitespace
        /\ r # <<>> => (r[1] \notin Whitespace /\ r[Len(r)] \notin Whitespace)

HasId(ts, id) == \E i \in 1..Len(ts) : ts[i].id = id

\* ------------------------------------------------------------------ C1
\* C1: on a store constructed empty, the k-th create_ticket call returns a
\* ticket whose id is exactly k, whatever resolve_ticket calls (successful
\* or failing) and queries are interleaved.
C1_IdsSequential ==
    result.op = "create_ticket" => tickets[Returned].id = creates

C1_Witness ==
    /\ result.op = "create_ticket"
    /\ creates = 2
    /\ tickets[1].status = RESOLVED

\* ------------------------------------------------------------------ C2
\* C2: in every reachable state every ticket id is a positive integer and no
\* two tickets share an id; and no step changes the id of an existing ticket.
IdsPositiveUnique ==
    /\ \A i \in Positions : tickets[i].id \in Nat \ {0}
    /\ \A i, j \in Positions : i # j => tickets[i].id # tickets[j].id

IdsImmutable ==
    /\ Len(tickets') >= Len(tickets)
    /\ \A i \in Positions : tickets'[i].id = tickets[i].id

C2_IdsPositiveUniqueImmutable ==
    []IdsPositiveUnique /\ [][IdsImmutable]_vars

C2_Witness ==
    /\ Len(tickets) = 2
    /\ tickets[2].status = RESOLVED
    /\ tickets[1].status = OPEN

\* ------------------------------------------------------------------ C3
\* C3: for each ticket, resolution is present iff resolved_at is present,
\* and both are present iff status is Resolved (an Open ticket has neither).
C3_ResolutionCoincidesWithStatus ==
    \A i \in Positions :
        /\ (tickets[i].resolution # None) <=> (tickets[i].resolved_at # None)
        /\ (tickets[i].resolution # None) <=> (tickets[i].status = RESOLVED)
        /\ tickets[i].status \in Status

C3_Witness ==
    /\ Len(tickets) = 2
    /\ tickets[1].status = RESOLVED
    /\ tickets[2].status = OPEN
    /\ result.op = "resolve_ticket"
    /\ result.id = 2
    /\ result.exc = EmptyResolutionMsg

\* ------------------------------------------------------------------ C4
\* C4: resolution is one-shot: once a ticket is Resolved, no later step
\* changes its resolution or its resolved_at.
C4_ResolutionOneShot ==
    [][\A i \in Positions :
          tickets[i].status = RESOLVED =>
              /\ tickets'[i].resolution = tickets[i].resolution
              /\ tickets'[i].resolved_at = tickets[i].resolved_at]_vars

\* ------------------------------------------------------------------ C5
\* C5: a ticket is Open when created, and once its status is Resolved it is
\* Resolved after every later step.
CreatedOpen ==
    result.op = "create_ticket" => tickets[Returned].status = OPEN

StaysResolved ==
    \A i \in Positions :
        tickets[i].status = RESOLVED => tickets'[i].status = RESOLVED

C5_StatusOneDirectional ==
    []CreatedOpen /\ [][StaysResolved]_vars

C5_Witness ==
    /\ Len(tickets) = 2
    /\ tickets[1].status = RESOLVED
    /\ result.op = "resolve_ticket"
    /\ result.id = tickets[1].id
    /\ result.exc = EmptyResolutionMsg

\* ------------------------------------------------------------------ C6
\* C6: resolve_ticket(id, text) on an Open ticket of the store with text that
\* is not blank succeeds and returns the store's own ticket with that id,
\* now Resolved, with the trimmed text as resolution and resolved_at set;
\* get_ticket(id) and filter_tickets by status show the change at once.
ElementsOf(seq) == {seq[k] : k \in 1..Len(seq)}

ResolveOpenSucceeds(id, text) ==
    (/\ IsCall("resolve_ticket")
     /\ result'.id = id
     /\ result'.text = text
     /\ ~IsBlank(text)
     /\ \E i \in Positions : tickets[i].id = id /\ tickets[i].status = OPEN)
    =>
    (/\ result'.exc = NoError
     /\ Len(result'.ret) = 1
     /\ LET k == result'.ret[1] IN
          /\ k \in Positions
          /\ tickets[k].id = id
          /\ tickets'[k].id = id
          /\ tickets'[k].status = RESOLVED
          /\ tickets'[k].resolution # None
          /\ IsTrimOf(tickets'[k].resolution[1], text)
          /\ tickets'[k].resolved_at = Some(clock)
          /\ get_ticket(tickets', id) = Some(k)
          /\ k \in ElementsOf(filter_tickets(tickets', Some(RESOLVED), None))
          /\ k \notin ElementsOf(filter_tickets(tickets', Some(OPEN), None)))

C6_ResolveSuccess ==
    [][\A id \in IdInputs, text \in ResolutionInputs :
          ResolveOpenSucceeds(id, text)]_vars

C6_Witness ==
    /\ result.op = "resolve_ticket"
    /\ result.exc = NoError
    /\ result.id = 2
    /\ result.text = <<" ", "x", " ">>
    /\ tickets[2].resolution = Some(<<"x">>)
    /\ tickets[2].resolved_at = Some(1)
    /\ tickets[1].status = OPEN

\* ------------------------------------------------------------------ C7
\* C7: resolve_ticket(id, text) with blank text (empty or whitespace only) on
\* the id of a stored ticket, Open or Resolved, raises the empty-resolution
\* error and leaves every ticket, their order and the counter as they were.
ResolveBlankFails(id, text) ==
    (/\ IsCall("resolve_ticket")
     /\ result'.id = id
     /\ result'.text = text
     /\ IsBlank(text)
     /\ HasId(tickets, id))
    =>
    (/\ result'.exc = EmptyResolutionMsg
     /\ result'.ret = <<>>
     /\ tickets' = tickets
     /\ next_id' = next_id)

C7_BlankResolutionRejected ==
    [][\A id \in IdInputs, text \in ResolutionInputs :
          ResolveBlankFails(id, text)]_vars

C7_Witness ==
    /\ result.op = "resolve_ticket"
    /\ result.exc = EmptyResolutionMsg
    /\ result.text = <<" ", " ">>
    /\ result.id = 1
    /\ tickets[1].status = RESOLVED
    /\ tickets[1].resolution = Some(<<"x">>)

\* ------------------------------------------------------------------ C8
\* C8: resolve_ticket(id, text) with an id no stored ticket has raises the
\* not-found error for every text, blank or not, and leaves every ticket,
\* their order and the counter as they were.
ResolveMissingFails(id, text) ==
    (/\ IsCall("resolve_ticket")
     /\ result'.id = id
     /\ result'.text = text
     /\ ~HasId(tickets, id))
    =>
    (/\ result'.exc = NotFoundMsg
     /\ result'.ret = <<>>
     /\ tickets' = tickets
     /\ next_id' = next_id)

C8_MissingIdRejected ==
    [][\A id \in IdInputs, text \in ResolutionInputs :
          ResolveMissingFails(id, text)]_vars

C8_Witness ==
    /\ result.op = "resolve_ticket"
    /\ result.exc = NotFoundMsg
    /\ result.text = <<"y">>
    /\ result.id = 2
    /\ Len(tickets) = 1
    /\ tickets[1].status = OPEN

MatchesStatus(i, status) == status = None \/ Some(tickets[i].status) = status
MatchesPriority(i, priority) == priority = None \/ Some(tickets[i].priority) = priority

C10_FilterExact ==
    result.op = "filter_tickets" =>
        LET r == result.ret
            wanted == {i \in Positions : /\ MatchesStatus(i, result.status)
                                          /\ MatchesPriority(i, result.priority)}
        IN /\ result.exc = NoError
           /\ ElementsOf(r) = wanted
           /\ Len(r) = Cardinality(wanted)
           /\ \A a, b \in 1..Len(r) : a < b => r[a] < r[b]
           /\ (result.status = None /\ result.priority = None)
                  => [k \in 1..Len(r) |-> tickets[r[k]]] = tickets

C10_Witness ==
    /\ result.op = "filter_tickets"
    /\ result.status = Some(RESOLVED)
    /\ result.priority = Some(MEDIUM)
    /\ result.ret = <<2>>
    /\ tickets[1].priority = LOW
    /\ tickets[1].status = OPEN

\* ----------------------------------------------------------------- C11
\* C11: create_ticket never fails, whatever the four texts (empty and
\* whitespace-only ones included) and the priority: it appends exactly one
\* ticket at the end, whose text fields are the inputs without leading and
\* trailing whitespace, with the given priority, status Open and no
\* resolution or resolved_at; the counter grows by exactly 1 and the tickets
\* stored before are unchanged.
CreateAppendsTrimmed(in) ==
    (/\ IsCall("create_ticket")
     /\ result'.text = <<in[1], in[2], in[3], in[4]>>
     /\ result'.priority = Some(in[5]))
    =>
    (/\ result'.exc = NoError
     /\ Len(tickets') = Len(tickets) + 1
     /\ SubSeq(tickets', 1, Len(tickets)) = tickets
     /\ result'.ret = <<Len(tickets) + 1>>
     /\ next_id' = next_id + 1
     /\ LET t == tickets'[Len(tickets) + 1] IN
          /\ IsTrimOf(t.requester, in[1])
          /\ IsTrimOf(t.contact, in[2])
          /\ IsTrimOf(t.subject, in[3])
          /\ IsTrimOf(t.description, in[4])
          /\ IsBlank(in[1]) => t.requester = <<>>
          /\ t.priority = in[5]
          /\ t.status = OPEN
          /\ t.resolution = None
          /\ t.resolved_at = None)

C11_CreateAppendsTrimmed ==
    [][\A in \in CreateInputs : CreateAppendsTrimmed(in)]_vars

C11_Witness ==
    /\ result.op = "create_ticket"
    /\ result.text = <<BlankInput[1], BlankInput[2], BlankInput[3], BlankInput[4]>>
    /\ Len(tickets) = 2
    /\ tickets[2].requester = <<>>
    /\ tickets[2].description = <<>>
    /\ tickets[2].subject = <<"S">>
    /\ tickets[1].requester = <<"A">>
    /\ tickets[1].status = RESOLVED

\* ----------------------------------------------------------------- C12
\* C12: a store seeded with tickets whose maximum id is k gives id k+1 to
\* the ticket of its first create_ticket call, whatever the order or gaps of
\* the seeded ids; a store seeded with nothing gives id 1; and every
\* create_ticket returns an id greater than every id already in the store.
CreateAboveAll ==
    IsCall("create_ticket") =>
        LET new == tickets'[Len(tickets')].id IN
        /\ Len(tickets') = Len(tickets) + 1
        /\ result'.ret = <<Len(tickets')>>
        /\ \A i \in Positions : new > tickets[i].id
        /\ (creates = 0 /\ tickets = <<>>) => new = 1
        /\ (creates = 0 /\ tickets # <<>>) =>
               \E i \in Positions : tickets[i].id = new - 1

C12_SeededCounter == [][CreateAboveAll]_vars

C12_Witness ==
    /\ result.op = "create_ticket"
    /\ creates = 2
    /\ Len(tickets) = 4
    /\ tickets[1].id = 3
    /\ tickets[2].id = 1
    /\ tickets[3].id = 4
    /\ tickets[4].id = 5

\* ----------------------------------------------------------------- C13
\* C13: the store is append-only: over every step (create_ticket,
\* resolve_ticket whether it succeeds or fails, and every query) the ids of
\* the tickets stored before are a prefix of the ids stored after, so no
\* ticket is removed or reordered and the count never decreases; and a
\* ticket added by the step has an id that no stored ticket has.
IdsOf(ts) == [i \in 1..Len(ts) |-> ts[i].id]

AppendOnlyStep ==
    /\ Len(tickets') >= Len(tickets)
    /\ SubSeq(IdsOf(tickets'), 1, Len(tickets)) = IdsOf(tickets)
    /\ \A j \in (Len(tickets) + 1)..Len(tickets') :
           \A i \in 1..Len(tickets') : i # j => tickets'[i].id # tickets'[j].id

C13_AppendOnly == [][AppendOnlyStep]_vars

C13_Witness ==
    /\ result.op = "get_ticket"
    /\ result.id = 2
    /\ result.ret = <<2>>
    /\ Len(tickets) = 2
    /\ tickets[2].status = RESOLVED
    /\ tickets[1].status = OPEN
    /\ tickets[1].priority = MEDIUM

\* ----------------------------------------------------------------- C14
\* C14: get_ticket(id) returns the first stored ticket, in insertion order,
\* whose id is id when there is one, and otherwise the absent value, without
\* an error; and resolve_ticket(id, text) fails with not-found exactly when
\* get_ticket(id) is absent.
GetReturnsFirst ==
    result.op = "get_ticket" =>
        /\ result.exc = NoError
        /\ IF HasId(tickets, result.id)
           THEN /\ Len(result.ret) = 1
                /\ Returned \in Positions
                /\ tickets[Returned].id = result.id
                /\ \A i \in 1..(Returned - 1) : tickets[i].id # result.id
           ELSE result.ret = None

NotFoundIffAbsent ==
    IsCall("resolve_ticket") =>
        ((result'.exc = NotFoundMsg) <=> (get_ticket(tickets, result'.id) = None))

C14_GetTicketFirstOrAbsent ==
    []GetReturnsFirst /\ [][NotFoundIffAbsent]_vars

C14_Witness ==
    /\ result.op = "get_ticket"
    /\ result.id = 2
    /\ result.ret = <<1>>
    /\ Len(tickets) >= 2
    /\ tickets[2].id = 2
    /\ tickets[1].status = RESOLVED
    /\ tickets[2].status = OPEN

\* ----------------------------------------------------------------- C15
\* C15: format_timestamp of src/ticketing.py returns exactly the one-character
\* string made of an em dash when the timestamp is absent, and renders a
\* present timestamp as YYYY-MM-DD HH:MM UTC (2024-01-01T12:00:00 gives
\* "2024-01-01 12:00 UTC").
DigitValue(c) == CHOOSE k \in 0..9 : Digits[k + 1] = c

Number(chars) ==
    IF Len(chars) = 2
    THEN 10 * DigitValue(chars[1]) + DigitValue(chars[2])
    ELSE 1000 * DigitValue(chars[1]) + 100 * DigitValue(chars[2])
            + 10 * DigitValue(chars[3]) + DigitValue(chars[4])

NewYearNoon ==
    [year |-> 2024, month |-> 1, day |-> 1, hour |-> 12, minute |-> 0, second |-> 0]

C15_FormatTimestamp ==
    result.op = "format_timestamp" =>
        IF result.text = None
        THEN result.ret = <<EmDash>>
        ELSE LET t == result.text[1]
                 r == result.ret
             IN /\ Len(r) = 20
                /\ \A k \in {1, 2, 3, 4, 6, 7, 9, 10, 12, 13, 15, 16} :
                       \E n \in 0..9 : r[k] = Digits[n + 1]
                /\ r[5] = "-" /\ r[8] = "-" /\ r[11] = " " /\ r[14] = ":"
                /\ SubSeq(r, 17, 20) = <<" ", "U", "T", "C">>
                /\ Number(SubSeq(r, 1, 4)) = t.year
                /\ Number(SubSeq(r, 6, 7)) = t.month
                /\ Number(SubSeq(r, 9, 10)) = t.day
                /\ Number(SubSeq(r, 12, 13)) = t.hour
                /\ Number(SubSeq(r, 15, 16)) = t.minute
                /\ t = NewYearNoon =>
                       r = <<"2", "0", "2", "4", "-", "0", "1", "-", "0", "1", " ",
                             "1", "2", ":", "0", "0", " ", "U", "T", "C">>

\* ----------------------------------------------------------------- C16
\* C16: the two failures of resolve_ticket are two different error kinds:
\* a missing id fails with NotFoundError and a blank resolution text with
\* ValidationError, so the kind of the error alone tells them apart.
ResolveFailed == result.op = "resolve_ticket" /\ result.exc # NoError

C16_DistinctErrorKinds ==
    ResolveFailed =>
        /\ ~HasId(tickets, result.id) => KindOf(result.exc) = "NotFoundError"
        /\ HasId(tickets, result.id) => KindOf(result.exc) = "ValidationError"
        /\ NotFoundKind # EmptyResolutionKind

\* C16 as amended: both failures of resolve_ticket raise ValueError; a
\* missing id raises it with the not-found message, whatever the text, and a
\* blank text on a stored id with the empty-resolution message, so only the
\* message tells the two failures apart.
C16_SameKindDistinctMessage ==
    ResolveFailed =>
        /\ KindOf(result.exc) = "ValueError"
        /\ ~HasId(tickets, result.id) => result.exc = NotFoundMsg
        /\ HasId(tickets, result.id) =>
               (result.exc = EmptyResolutionMsg /\ IsBlank(result.text))
        /\ NotFoundMsg # EmptyResolutionMsg

C16_Witness ==
    /\ result.op = "resolve_ticket"
    /\ result.exc = NotFoundMsg
    /\ result.text = <<>>
    /\ result.id = 3
    /\ Len(tickets) = 2
    /\ tickets[2].resolution = Some(<<"y">>)

\* ----------------------------------------------------------------- C17
\* C17: a successful resolve_ticket(id, text) changes only the status,
\* resolution and resolved_at of the ticket with that id: its id, requester,
\* contact, subject, description, priority and created_at, every other
\* ticket, the order and number of tickets and the counter are unchanged.
ResolveFrame ==
    (IsCall("resolve_ticket") /\ result'.exc = NoError) =>
        LET k == result'.ret[1] IN
        /\ k \in Positions
        /\ tickets[k].id = result'.id
        /\ Len(tickets') = Len(tickets)
        /\ \A i \in Positions : i # k => tickets'[i] = tickets[i]
        /\ tickets'[k] = [tickets[k] EXCEPT !.status = tickets'[k].status,
                                             !.resolution = tickets'[k].resolution,
                                             !.resolved_at = tickets'[k].resolved_at]
        /\ next_id' = next_id

C17_ResolveFrame == [][ResolveFrame]_vars

C17_Witness ==
    /\ result.op = "resolve_ticket"
    /\ result.exc = NoError
    /\ result.id = 1
    /\ Len(tickets) = 2
    /\ tickets[1].created_at = 0
    /\ tickets[1].resolved_at = Some(1)
    /\ tickets[1].requester = <<"A">>
    /\ tickets[1].priority = HIGH
    /\ tickets[2].status = OPEN
    /\ tickets[2].priority = LOW

\* ----------------------------------------------------------------- C18
\* C18: in the UI layer a submitted form adds a ticket only when requester,
\* contact, subject and description are all non-empty after trimming; a
\* submission with a blank field is rejected and leaves the session's list
\* unchanged; so every ticket of the session's list has non-empty, trimmed
\* text fields.
TextFields(t) == {t.requester, t.contact, t.subject, t.description}

SessionFieldsFilled ==
    \A i \in 1..Len(session) :
        \A f \in TextFields(session[i]) : f # <<>> /\ IsTrimOf(f, f)

SubmitChecksFields(in) ==
    (IsCall("submit_form") /\ result'.text = <<in[1], in[2], in[3], in[4]>>)
    =>
    IF \E k \in 1..4 : IsBlank(in[k])
    THEN /\ session' = session
         /\ result'.exc = FormErrorMsg
    ELSE /\ result'.exc = NoError
         /\ Len(session') = Len(session) + 1
         /\ SubSeq(session', 1, Len(session)) = session
         /\ IsTrimOf(session'[Len(session')].requester, in[1])
         /\ IsTrimOf(session'[Len(session')].contact, in[2])
         /\ IsTrimOf(session'[Len(session')].subject, in[3])
         /\ IsTrimOf(session'[Len(session')].description, in[4])

C18_FormRejectsBlankFields ==
    /\ []SessionFieldsFilled
    /\ [][\A in \in FormInputs : SubmitChecksFields(in)]_vars

C18_Witness ==
    /\ result.op = "submit_form"
    /\ result.exc = FormErrorMsg
    /\ result.text = <<OneBlankInput[1], OneBlankInput[2], OneBlankInput[3], OneBlankInput[4]>>
    /\ Len(session) = 1
    /\ session[1].requester = <<"A">>
    /\ session[1].status = "Resolved"

\* ----------------------------------------------------------------- C19
\* C19: the UI's id assignment (largest id of the session's list plus 1, or
\* 1 for an empty list) and the store's counter agree: started empty and
\* given any sequence of creations and resolutions, the k-th ticket created
\* gets the same id in both, and the store's counter always equals the
\* largest stored id plus 1 (1 when the store is empty).
Smaller(a, b) == IF a < b THEN a ELSE b

SameIdsAssigned ==
    \A k \in 1..Smaller(Len(tickets), Len(session)) :
        tickets[k].id = session[k].id

CounterIsMaxPlusOne ==
    /\ next_id = get_next_ticket_id(tickets)
    /\ tickets = <<>> => next_id = 1
    /\ tickets # <<>> =>
           /\ \E i \in Positions : tickets[i].id = next_id - 1
           /\ \A i \in Positions : tickets[i].id < next_id

C19_IdAssignmentsAgree ==
    SameIdsAssigned /\ CounterIsMaxPlusOne

C19_Witness ==
    /\ Len(tickets) = 2
    /\ Len(session) = 2
    /\ tickets[1].status = RESOLVED
    /\ session[2].status = "Resolved"
    /\ session[2].id = 2
    /\ tickets[2].id = 2

\* ----------------------------------------------------------------- C20
\* C20: get_ticket, filter_tickets, stats and the tickets accessor never
\* change the store (the ticket sequence, every field of every ticket and
\* the counter stay as they were); tickets returns the whole sequence in
\* order; and the lists tickets and filter_tickets return are fresh copies:
\* appending to, removing from or reordering a returned list leaves the
\* store's own sequence and counter unchanged.
QueryOps == {"get_ticket", "filter_tickets", "stats", "tickets"}

QueriesLeaveStore ==
    (clock' = clock /\ result'.op \in QueryOps \cup {"mutate_list"}) =>
        /\ tickets' = tickets
        /\ next_id' = next_id

TicketsReturnsAll ==
    result.op = "tickets" =>
        /\ Len(result.ret) = Len(tickets)
        /\ \A k \in Positions : result.ret[k] = k

C20_QueriesReadOnly ==
    []TicketsReturnsAll /\ [][QueriesLeaveStore]_vars

C20_Witness ==
    /\ result.op = "mutate_list"
    /\ result.ret = <<2, 1>>
    /\ Len(tickets) = 2
    /\ tickets[1].id = 1
    /\ tickets[2].id = 2
    /\ tickets[2].status = RESOLVED
    /\ next_id = 3
====
